---- MODULE Spec2Model ----
(***************************************************************************)
(* Model of interact_prompt_cli.py: the retry/confirm loop of PromptBase,  *)
(* the option validator (OptionPrompt), the free-form collector            *)
(* (FreeformPrompt) and the boolean specialisation (YesNoPrompt).          *)
(*                                                                         *)
(* Text is a sequence of one-character strings, so that lower(), strip(),  *)
(* split(",") and ", ".join() are computed character by character.         *)
(***************************************************************************)
EXTENDS Integers, Sequences, FiniteSets, TLC

\* ------------------------------------------------------------------ bounds
\* largest value of `retries` a prompt is constructed with
MaxRetries == 2
\* number of ask() calls made on one instance
MaxAsks == 2
\* number of comma separated tokens in one line typed at an option prompt
MaxTokens == 2
\* number of entries typed in one round of the repeated free-form mode
MaxEntries == 2

\* ------------------------------------------------------------- text (str)
UpperChars == <<"A","B","C","D","E","F","G","H","I","J","K","L","M",
                "N","O","P","Q","R","S","T","U","V","W","X","Y","Z">>
LowerChars == <<"a","b","c","d","e","f","g","h","i","j","k","l","m",
                "n","o","p","q","r","s","t","u","v","w","x","y","z">>
DigitChars == <<"0","1","2","3","4","5","6","7","8","9">>

\* str.lower() on one character
LowerChar(c) ==
    IF \E i \in DOMAIN UpperChars : UpperChars[i] = c
    THEN LowerChars[CHOOSE i \in DOMAIN UpperChars : UpperChars[i] = c]
    ELSE c

\* str.lower()
Lower(s) == [i \in 1..Len(s) |-> LowerChar(s[i])]

\* the characters str.strip() removes
IsSpace(c) == c \in {" ", "\t"}

RECURSIVE LStrip(_)
LStrip(s) == IF s # <<>> /\ IsSpace(Head(s)) THEN LStrip(Tail(s)) ELSE s

RECURSIVE RStrip(_)
RStrip(s) ==
    IF s # <<>> /\ IsSpace(s[Len(s)]) THEN RStrip(SubSeq(s, 1, Len(s) - 1)) ELSE s

\* str.strip()
Strip(s) == RStrip(LStrip(s))

\* str.split(","): the pieces between commas, empty pieces kept
RECURSIVE SplitComma(_)
SplitComma(s) ==
    IF \E i \in 1..Len(s) : s[i] = ","
    THEN LET i == CHOOSE j \in 1..Len(s) :
                     s[j] = "," /\ \A k \in 1..(j - 1) : s[k] # ","
         IN  <<SubSeq(s, 1, i - 1)>> \o SplitComma(SubSeq(s, i + 1, Len(s)))
    ELSE <<s>>

\* ", ".join(parts)
RECURSIVE JoinComma(_)
JoinComma(parts) ==
    IF parts = <<>> THEN <<>>
    ELSE IF Len(parts) = 1 THEN parts[1]
    ELSE parts[1] \o <<",", " ">> \o JoinComma(Tail(parts))

\* str(n) for a natural number
RECURSIVE IntToStr(_)
IntToStr(n) ==
    IF n < Len(DigitChars) THEN <<DigitChars[n + 1]>>
    ELSE IntToStr(n \div Len(DigitChars)) \o <<DigitChars[(n % Len(DigitChars)) + 1]>>

\* ----------------------------------------------------------------- values
\* A Python scalar: its type and the text str() gives for it.
StrV(s)  == [t |-> "str",  s |-> s]
IntV(n)  == [t |-> "int",  s |-> IntToStr(n)]
TrueV    == [t |-> "bool", s |-> <<"T","r","u","e">>]
FalseV   == [t |-> "bool", s |-> <<"F","a","l","s","e">>]
NilV     == [t |-> "nil",  s |-> <<>>]

\* str(v)
PyStr(v) == v.s

\* What _do_ask hands to ask(): the _Retry class, None, one scalar, or a list.
Retry      == [tag |-> "retry", v |-> NilV, items |-> <<>>]
NoneR      == [tag |-> "none",  v |-> NilV, items |-> <<>>]
One(v)     == [tag |-> "one",   v |-> v,    items |-> <<>>]
ListR(vs)  == [tag |-> "list",  v |-> NilV, items |-> vs]

\* A default specification: None, an int, a str, or a list of ints and strs.
DefNone     == [t |-> "none", n |-> 0, s |-> <<>>, items |-> <<>>]
DefInt(n)   == [t |-> "int",  n |-> n, s |-> <<>>, items |-> <<>>]
DefStr(s)   == [t |-> "str",  n |-> 0, s |-> s,    items |-> <<>>]
DefList(ds) == [t |-> "list", n |-> 0, s |-> <<>>, items |-> ds]

\* One catalog entry; an options sequence is a list of keys, an options
\* mapping a list of (key, value) items in insertion order.
Item(k, v) == [k |-> k, v |-> v]
OptList(keys) == [shape |-> "list", items |-> [i \in 1..Len(keys) |-> Item(keys[i], StrV(keys[i]))]]
OptDict(items) == [shape |-> "dict", items |-> items]
\* options given as a tuple: an ordered sequence that is not a list
OptTuple(keys) == [shape |-> "tuple", items |-> OptList(keys).items]
\* options given as a value that is neither a sequence nor a mapping
OptScalar == [shape |-> "int", items |-> <<>>]
\* options = None
OptNone == [shape |-> "none", items |-> <<>>]

\* --------------------------------------------------------- OptionPrompt
\* {opt: opt for opt in options}: a repeated key keeps its first position
RECURSIVE DedupKeys(_)
DedupKeys(items) ==
    IF items = <<>> THEN <<>>
    ELSE LET rest == DedupKeys(SubSeq(items, 1, Len(items) - 1))
             last == items[Len(items)]
         IN  IF \E i \in 1..Len(rest) : rest[i].k = last.k THEN rest
             ELSE Append(rest, last)

\* _option_dict: the catalog, as (key, value) items in insertion order
OptionDict(options) ==
    IF options.shape = "dict" THEN options.items ELSE DedupKeys(options.items)

\* _display_keys = list(self._option_dict.keys())
DisplayKeys(od) == [i \in 1..Len(od) |-> od[i].k]

\* list(self._option_dict.values())
DictValues(od) == [i \in 1..Len(od) |-> od[i].v]

\* self._option_dict[k]
DictGet(od, k) == od[CHOOSE i \in 1..Len(od) : od[i].k = k].v

\* d[k] = v on a dict held as a function
MapSet(m, k, v) == [x \in (DOMAIN m) \cup {k} |-> IF x = k THEN v ELSE m[x]]

EmptyMap == [x \in {} |-> NilV]

\* k if case_sensitive else k.lower()
KNorm(k, cs) == IF cs THEN StrV(k) ELSE StrV(Lower(k))

\* v if case_sensitive else str(v).lower()
VNorm(v, cs) == IF cs THEN v ELSE StrV(Lower(PyStr(v)))

\* one iteration of the loop of _build_maps
ValueMapStep(m, item, cs) ==
    LET k_norm == KNorm(item.k, cs)
        v_norm == VNorm(item.v, cs)
        m1     == MapSet(m, k_norm, item.v)
    IN  IF v_norm # k_norm THEN MapSet(m1, v_norm, item.v) ELSE m1

\* _value_map: the loop of _build_maps over the first n items
RECURSIVE BuildValueMap(_, _, _)
BuildValueMap(od, n, cs) ==
    IF n = 0 THEN EmptyMap
    ELSE ValueMapStep(BuildValueMap(od, n - 1, cs), od[n], cs)

\* an index key that numbers the entries from 0
IndexKeyFromZero(i) == StrV(IntToStr(i))

\* the key of the index map for the entry at 0-based position i: str(i + 1)
IndexKey(i) == StrV(IntToStr(i + 1))

\* _index_map = {str(i + 1): self._option_dict[k] for i, k in enumerate(keys)}
BuildIndexMap(od) ==
    [x \in {IndexKey(i) : i \in 0..(Len(od) - 1)} |->
        DictGet(od, DisplayKeys(od)[CHOOSE j \in 1..Len(od) : IndexKey(j - 1) = x])]

\* the result of match(val): a key, or None
Found(k) == [ok |-> TRUE, k |-> k]
NotFound == [ok |-> FALSE, k |-> <<>>]

\* the position an int default selects: display_keys[val], val counted from 0
DefaultIndexInRange(n, od) == 0 <= n /\ n < Len(od)

\* match(val) inside _resolve_default_keys
Match(val, od, cs) ==
    IF val.t = "int" /\ DefaultIndexInRange(val.n, od)
    THEN Found(DisplayKeys(od)[val.n + 1])
    ELSE IF val.t = "str"
    THEN LET cmp  == KNorm(val.s, cs)
             hits == {i \in 1..Len(od) :
                        cmp \in {KNorm(od[i].k, cs), VNorm(od[i].v, cs)}}
         IN  IF hits = {} THEN NotFound
             ELSE Found(od[CHOOSE i \in hits : \A j \in hits : i <= j].k)
    ELSE NotFound

\* truth value of what match returned: None and the empty key are falsy
Truthy(m) == m.ok /\ m.k # <<>>

\* [m for d in default if (m := match(d))]
RECURSIVE MatchAll(_, _, _)
MatchAll(ds, od, cs) ==
    IF ds = <<>> THEN <<>>
    ELSE LET m == Match(Head(ds), od, cs)
         IN  (IF Truthy(m) THEN <<m.k>> ELSE <<>>) \o MatchAll(Tail(ds), od, cs)

\* _resolve_default_keys
ResolveDefaultKeys(default, od, cs) ==
    IF default.t = "list" THEN MatchAll(default.items, od, cs)
    ELSE LET m == Match(default, od, cs)
         IN  IF Truthy(m) THEN <<m.k>> ELSE <<>>

\* The fields of a constructed prompt. cls is the class; a FreeformPrompt has
\* no catalog, its option fields are empty.
OptionPrompt(cls, retries, confirm, options, default, cs, multi, custom) ==
    LET od == OptionDict(options)
    IN  [cls |-> cls, retries |-> retries, confirm |-> confirm,
         options |-> options, default |-> default, case_sensitive |-> cs,
         multi |-> multi, allow_custom |-> custom,
         option_dict |-> od,
         display_keys |-> DisplayKeys(od),
         value_map |-> BuildValueMap(od, Len(od), cs),
         index_map |-> BuildIndexMap(od),
         default_keys |-> ResolveDefaultKeys(default, od, cs)]

YesNoOptions ==
    OptDict(<<Item(<<"y","e","s">>, TrueV), Item(<<"n","o">>, FalseV)>>)

\* YesNoPrompt.__init__
YesNoPrompt(retries, confirm, default) ==
    OptionPrompt("YesNoPrompt", retries, confirm, YesNoOptions, default,
                 FALSE, FALSE, FALSE)

\* FreeformPrompt(prompt, retries, confirm, multi)
FreeformPrompt(retries, confirm, multi) ==
    [cls |-> "FreeformPrompt", retries |-> retries, confirm |-> confirm,
     options |-> OptList(<<>>), default |-> DefNone, case_sensitive |-> FALSE,
     multi |-> multi, allow_custom |-> FALSE,
     option_dict |-> <<>>, display_keys |-> <<>>, value_map |-> EmptyMap,
     index_map |-> EmptyMap, default_keys |-> <<>>]

\* ------------------------------------------------------- output channel
\* A message handed to plim: the channel and what it lists.
Msg(ch, what, text) == [ch |-> ch, what |-> what, text |-> text]

\* What one call of _do_ask yields: the value, the messages it emitted and
\* the exception it raised ("none" when it returned).
Outcome(value, out, exc) == [value |-> value, out |-> out, exc |-> exc]

\* _handle_empty
HandleEmpty(p) ==
    IF p.default.t = "none"
    THEN Outcome(IF ~p.multi THEN NoneR ELSE ListR(<<>>), <<>>, "none")
    ELSE IF ~p.multi
    THEN IF p.default_keys = <<>>
         THEN Outcome(NoneR, <<>>, "IndexError")
         ELSE Outcome(One(DictGet(p.option_dict, p.default_keys[1])), <<>>, "none")
    ELSE Outcome(ListR([i \in 1..Len(p.default_keys) |->
                          DictGet(p.option_dict, p.default_keys[i])]), <<>>, "none")

\* a normalisation that never folds the case
NormKeep(raw, cs) == raw

\* norm = raw if self.case_sensitive else raw.lower()
Norm(raw, cs) == IF cs THEN raw ELSE Lower(raw)

\* [t.strip() for t in norm.split(",") if t.strip()]
Tokens(norm) ==
    LET parts == SplitComma(norm)
        strip == [i \in 1..Len(parts) |-> Strip(parts[i])]
    IN  SelectSeq(strip, LAMBDA t : t # <<>>)

S_all  == <<"a","l","l">>
S_none == <<"n","o","n","e">>

\* the text appended for a custom token in the multi-select loop
CustomToken(token) == StrV(token)

\* what a shortcut token leaves in `selected`
ShortcutSelection(token, p) ==
    IF token = S_all THEN DictValues(p.option_dict) ELSE <<>>

\* the for loop of the multi-select branch, from its state (selected, unknown)
RECURSIVE TokenLoop(_, _, _, _)
TokenLoop(tokens, selected, unknown, p) ==
    IF tokens = <<>> THEN [selected |-> selected, unknown |-> unknown]
    ELSE LET token == Head(tokens)
             key   == StrV(token)
         IN  IF key \in DOMAIN p.index_map
             THEN TokenLoop(Tail(tokens), Append(selected, p.index_map[key]), unknown, p)
             ELSE IF key \in DOMAIN p.value_map
             THEN TokenLoop(Tail(tokens), Append(selected, p.value_map[key]), unknown, p)
             ELSE IF token \in {S_all, S_none}
             THEN [selected |-> ShortcutSelection(token, p), unknown |-> unknown]
             ELSE IF p.allow_custom
             THEN TokenLoop(Tail(tokens), Append(selected, CustomToken(token)), unknown, p)
             ELSE TokenLoop(Tail(tokens), selected, Append(unknown, token), p)

\* a multi-select branch that keeps what matched and drops the rest
ParseMultiPartial(raw, p) ==
    LET norm == Norm(raw, p.case_sensitive)
        r    == TokenLoop(Tokens(norm), <<>>, <<>>, p)
    IN  Outcome(ListR(r.selected), <<>>, "none")

\* the multi-select branch of _parse_input
ParseMulti(raw, p) ==
    LET norm == Norm(raw, p.case_sensitive)
        r    == TokenLoop(Tokens(norm), <<>>, <<>>, p)
    IN  IF r.unknown # <<>>
        THEN Outcome(Retry, <<Msg("warn", "invalid_input", JoinComma(r.unknown))>>, "none")
        ELSE Outcome(ListR(r.selected), <<>>, "none")

\* a single-select branch that tries the key/value map before the index map
ParseSingleKeyFirst(raw, p) ==
    LET norm == StrV(Norm(raw, p.case_sensitive))
    IN  IF norm \in DOMAIN p.value_map THEN Outcome(One(p.value_map[norm]), <<>>, "none")
        ELSE IF norm \in DOMAIN p.index_map THEN Outcome(One(p.index_map[norm]), <<>>, "none")
        ELSE IF p.allow_custom THEN Outcome(One(StrV(raw)), <<>>, "none")
        ELSE Outcome(Retry,
                     <<Msg("warn", "expected_one_of", JoinComma(p.display_keys))>>,
                     "none")

\* the single-select branch of _parse_input
ParseSingle(raw, p) ==
    LET norm == StrV(Norm(raw, p.case_sensitive))
    IN  IF norm \in DOMAIN p.index_map THEN Outcome(One(p.index_map[norm]), <<>>, "none")
        ELSE IF norm \in DOMAIN p.value_map THEN Outcome(One(p.value_map[norm]), <<>>, "none")
        ELSE IF p.allow_custom THEN Outcome(One(StrV(raw)), <<>>, "none")
        ELSE Outcome(Retry,
                     <<Msg("warn", "expected_one_of", JoinComma(p.display_keys))>>,
                     "none")

\* _parse_input
ParseInput(raw, p) == IF p.multi THEN ParseMulti(raw, p) ELSE ParseSingle(raw, p)

\* OptionPrompt._do_ask, given the line plim.ask returned
OptionDoAsk(raw, p) == IF raw = <<>> THEN HandleEmpty(p) ELSE ParseInput(raw, p)

\* the single branch of FreeformPrompt._do_ask: raw or _Retry
FreeformSingle(raw) ==
    IF raw = <<>> THEN Outcome(Retry, <<>>, "none")
    ELSE Outcome(One(StrV(raw)), <<>>, "none")

S_done == <<"d","o","n","e">>

\* a terminator test that forgets to fold the case
EndsCollectionExact(raw) == raw \in {S_done, <<>>}

\* raw.lower() in {"done", ""}
EndsCollection(raw) == Lower(raw) \in {S_done, <<>>}

\* FreeformPrompt._do_ask, repeated mode, once the loop was left with `values`
FreeformCollected(values) ==
    IF values = <<>>
    THEN Outcome(Retry, <<Msg("plain", "no_entries", <<>>)>>, "none")
    ELSE Outcome(ListR([i \in 1..Len(values) |-> StrV(values[i])]), <<>>, "none")

\* ------------------------------------------------------------ PromptBase
\* isinstance(value, Sequence) and not isinstance(value, str)
IsSequence(value) == value.tag = "list"

\* ", ".join(value) raises TypeError unless every item is a str
ConfirmRaises(value) ==
    IsSequence(value) /\ \E i \in 1..Len(value.items) : value.items[i].t # "str"

S_n  == <<"n">>
S_no == <<"n","o">>

\* _confirm, given the answer to the follow-up: not declined
Accepted(answer) == Lower(Strip(answer)) \notin {S_n, S_no}

\* ------------------------------------------------- configurations, inputs
\* retries: int = 3, the value a prompt gets when none is passed
DefaultRetries == 3

K_Ab == <<"A","b">>
K_cd == <<"c","d">>
K_CD == <<"C","D">>
K_AB == <<"A","B">>
K_B  == <<"B">>
K_11 == <<"1","1">>
K_3  == <<"3">>
K_zz == <<"z","z">>
K_Zq == <<"Z","q">>
K_1  == <<"1">>
K_2  == <<"2">>
K_a  == <<"a">>
K_b  == <<"b">>
K_c  == <<"c">>
K_x  == <<"x">>

\* a mapping with values that are not text
CatNumbers == OptDict(<<Item(K_Ab, IntV(1)), Item(K_cd, IntV(2))>>)
\* a sequence of keys
CatWords   == OptList(<<K_Ab, K_cd>>)
\* keys that read like index strings
CatDigits  == OptList(<<K_2, K_1>>)
\* a mapping where the value text of one entry is the key of another
CatAlias   == OptDict(<<Item(K_b, StrV(K_c)), Item(K_a, StrV(K_b))>>)
\* a key spelled like a shortcut
CatShort   == OptList(<<S_all, K_x>>)

\* a sequence that repeats a key
CatRepeat  == OptList(<<K_a, K_b, K_a, K_c>>)
\* a sequence long enough for a two-digit index
CatLong    == OptList([i \in 1..(Len(DigitChars) + 1) |-> <<LowerChars[i]>>])

LoopCatalogs  == {CatNumbers, CatWords}
ParseCatalogs ==
    {CatNumbers, CatWords, CatDigits, CatAlias, CatShort, CatRepeat, CatLong}

LoopDefaults  == {DefNone, DefStr(K_CD), DefStr(K_zz)}
ParseDefaults ==
    {DefNone, DefInt(0), DefInt(1), DefInt(2), DefStr(K_CD), DefStr(K_zz),
     DefList(<<DefInt(1), DefStr(K_zz)>>), DefList(<<DefStr(K_zz)>>)}

YesNoDefaults == {DefNone, DefStr(S_no), DefStr(K_zz)}

\* lines typed at an option prompt in the loop specification
Lines ==
    {<<>>, <<" ">>, K_1, K_CD, K_Zq, S_n, S_no, K_1 \o <<",", " ">> \o K_Zq}

\* tokens the lines of the parse specification are made of
TokenPool == {K_1, K_2, K_CD, K_b, K_Zq, S_all, S_none}

TokenLists == UNION {[1..n -> TokenPool] : n \in 1..MaxTokens}

S_N     == <<"N">>
S_maybe == <<"m","a","y","b","e">>
S_yes   == <<"y","e","s">>
S_true  == <<"T","R","U","E">>

\* lines typed at an option prompt in the parse specification
ParseLines ==
    {JoinComma(ts) : ts \in TokenLists}
    \cup {<<>>, <<" ">>, <<" ">> \o K_1, <<",">>, K_1 \o <<",", ",">> \o K_CD,
          S_N, S_no, S_yes, S_maybe, S_true,
          K_AB, K_B, K_11, K_3, K_AB \o <<",", " ">> \o K_CD}

\* lines typed at a free-form prompt
FreeLines ==
    {<<>>, <<" ">>, K_a, K_Ab, S_done, <<"D","o","n","e">>}

\* answers typed at the confirmation follow-up
Responses == {<<>>, <<"y">>, S_n, <<"N","o">>, <<" ">> \o S_no \o <<" ">>, S_maybe}

RetryCounts == 0..MaxRetries

LoopPrompts ==
    {OptionPrompt("OptionPrompt", r, c, o, d, cs, m, ac) :
        r \in RetryCounts, c \in BOOLEAN, o \in LoopCatalogs, d \in LoopDefaults,
        cs \in BOOLEAN, m \in BOOLEAN, ac \in BOOLEAN}
    \cup {YesNoPrompt(r, c, d) : r \in RetryCounts, c \in BOOLEAN, d \in YesNoDefaults}
    \cup {FreeformPrompt(r, c, m) : r \in RetryCounts, c \in BOOLEAN, m \in BOOLEAN}

ParsePrompts ==
    {OptionPrompt("OptionPrompt", DefaultRetries, FALSE, o, d, cs, m, ac) :
        o \in ParseCatalogs, d \in ParseDefaults,
        cs \in BOOLEAN, m \in BOOLEAN, ac \in BOOLEAN}
    \cup {YesNoPrompt(DefaultRetries, FALSE, d) : d \in YesNoDefaults}
    \cup {FreeformPrompt(DefaultRetries, FALSE, m) : m \in BOOLEAN}

\* ------------------------------------------------------------------ state
VARIABLES
    self,       \* the fields of the prompt instance, fixed at construction
    attempts,   \* self._attempts
    pc,         \* where the caller / ask() stands
    raw,        \* the line the validator was last given
    value,      \* the candidate _do_ask returned
    values,     \* FreeformPrompt._do_ask: the entries collected so far
    result,     \* what ask() returned
    exc,        \* the exception that left ask(), "none" if none
    out,        \* messages emitted since the current loop iteration began
    resp,       \* the answer last given to the confirmation follow-up
    call,       \* the arguments of interactive_prompt, when the router was used
    seen,       \* history: the lines the current _do_ask call has read
    asks,       \* history: ask() calls made on the instance
    start,      \* history: attempts when the current ask() call began
    tried,      \* history: _do_ask calls completed in the current ask() call
    reads,      \* history: lines read through plim.ask in the current call
    errors,     \* history: error notices emitted in the current call
    allBad,     \* history: every attempt of the current call was invalid or declined
    via         \* history: how the current call ended

vars == <<self, attempts, pc, raw, value, values, result, exc, out, resp,
          call, seen,
          asks, start, tried, reads, errors, allBad, via>>

\* the prompt class was constructed by the caller, not through the router
DirectUse ==
    [freeform |-> "direct", options |-> OptNone, default |-> DefNone,
     multi |-> FALSE, allow_custom |-> FALSE, retries |-> DefaultRetries,
     confirm |-> FALSE, case_sensitive |-> FALSE]

\* no prompt instance has been constructed
NoPrompt ==
    [cls |-> "none", retries |-> 0, confirm |-> FALSE,
     options |-> OptNone, default |-> DefNone, case_sensitive |-> FALSE,
     multi |-> FALSE, allow_custom |-> FALSE,
     option_dict |-> <<>>, display_keys |-> <<>>, value_map |-> EmptyMap,
     index_map |-> EmptyMap, default_keys |-> <<>>]

IsOption == self.cls \in {"OptionPrompt", "YesNoPrompt"}

InitWith(prompts) ==
    /\ self \in prompts
    /\ attempts = 0
    /\ pc = "idle"
    /\ raw = <<>>
    /\ value = NoneR
    /\ values = <<>>
    /\ result = NoneR
    /\ exc = "none"
    /\ out = <<>>
    /\ resp = <<>>
    /\ call = DirectUse
    /\ seen = <<>>
    /\ asks = 0
    /\ start = 0
    /\ tried = 0
    /\ reads = 0
    /\ errors = 0
    /\ allBad = TRUE
    /\ via = "none"

Init == InitWith(LoopPrompts)

InitParse == InitWith(ParsePrompts)

\* a counter that counts one attempt as two
IncrementTwice(n) == n + 2

\* self._attempts += 1
Increment(n) == n + 1

\* a loop that runs one iteration too many
LoopTestInclusive(n, retries) == n <= retries

\* the test of the while loop of ask()
LoopTest(n, retries) == n < retries

\* a loop that never asks the follow-up
NeedsConfirmNever(p) == FALSE

\* the first operand of `if self.confirm and not self._confirm(value)`
NeedsConfirm(p) == p.confirm

\* a test that takes None, not the sentinel, for the retry signal
IsRetryByNone(v) == v = NoneR

\* value is _Retry
IsRetry(v) == v = Retry

\* ask() is entered: a new frame, its locals not yet assigned
AskFrame ==
    /\ pc' = "loop"
    /\ asks' = asks + 1
    /\ start' = attempts
    /\ tried' = 0
    /\ reads' = 0
    /\ errors' = 0
    /\ allBad' = TRUE
    /\ via' = "none"
    /\ out' = <<>>
    /\ raw' = <<>>
    /\ value' = NoneR
    /\ values' = <<>>
    /\ resp' = <<>>
    /\ result' = NoneR
    /\ seen' = <<>>

\* the caller invokes ask() on the instance it holds
Ask ==
    /\ pc \in {"idle", "returned"}
    /\ asks < MaxAsks
    /\ AskFrame
    /\ UNCHANGED <<call, self, attempts, exc>>

\* while self._attempts < self.retries: enter the body, _do_ask begins; the
\* locals of the iteration before are dead and are cleared
LoopEnter ==
    /\ pc = "loop"
    /\ LoopTest(attempts, self.retries)
    /\ pc' = "read"
    /\ raw' = <<>>
    /\ value' = NoneR
    /\ values' = <<>>
    /\ resp' = <<>>
    /\ out' = <<>>
    /\ seen' = <<>>
    /\ UNCHANGED <<call, self, attempts, result, exc,
                   asks, start, tried, reads, errors, allBad, via>>

\* the loop is left: plim.error(...), plim.divider(), return None
LoopExhaust ==
    /\ pc = "loop"
    /\ ~LoopTest(attempts, self.retries)
    /\ out' = Append(out, Msg("error", "too_many_attempts", <<>>))
    /\ errors' = errors + 1
    /\ result' = NoneR
    /\ via' = "exhausted"
    /\ pc' = "returned"
    /\ UNCHANGED <<seen, call, resp, self, attempts, raw, value, values, exc,
                   asks, start, tried, reads, allBad>>

\* _do_ask returned o (or raised) after reading `line`
Validated(line, o) ==
    /\ raw' = line
    /\ reads' = reads + 1
    /\ out' = out \o o.out
    /\ IF o.exc = "none"
       THEN /\ value' = o.value
            /\ tried' = tried + 1
            /\ pc' = "got"
            /\ UNCHANGED <<exc, via>>
       ELSE /\ exc' = o.exc
            /\ via' = "raised"
            /\ pc' = "raised"
            /\ UNCHANGED <<value, tried>>
    /\ seen' = Append(seen, line)
    /\ UNCHANGED <<call, resp, self, attempts, values, result, asks, start, errors, allBad>>

\* OptionPrompt._do_ask with the line the user typed
OptionRead(line) ==
    /\ pc = "read"
    /\ IsOption
    /\ Validated(line, OptionDoAsk(line, self))

\* FreeformPrompt._do_ask, single mode
FreeformRead(line) ==
    /\ pc = "read"
    /\ self.cls = "FreeformPrompt"
    /\ ~self.multi
    /\ Validated(line, FreeformSingle(line))

\* FreeformPrompt._do_ask, repeated mode: a line that is kept
FreeformEntry(line) ==
    /\ pc = "read"
    /\ self.cls = "FreeformPrompt"
    /\ self.multi
    /\ ~EndsCollection(line)
    /\ Len(values) < MaxEntries
    /\ values' = Append(values, line)
    /\ raw' = line
    /\ reads' = reads + 1
    /\ seen' = Append(seen, line)
    /\ UNCHANGED <<call, resp, self, attempts, pc, value, result, exc, out,
                   asks, start, tried, errors, allBad, via>>

\* FreeformPrompt._do_ask, repeated mode: a line that ends the collection
FreeformEnd(line) ==
    /\ pc = "read"
    /\ self.cls = "FreeformPrompt"
    /\ self.multi
    /\ EndsCollection(line)
    /\ Validated(line, FreeformCollected(values))

\* if value is _Retry: self._attempts += 1; continue
RetryAttempt ==
    /\ pc = "got"
    /\ IsRetry(value)
    /\ attempts' = Increment(attempts)
    /\ pc' = "loop"
    /\ UNCHANGED <<seen, call, resp, self, raw, value, values, result, exc, out,
                   asks, start, tried, reads, errors, allBad, via>>

\* self.confirm holds: _confirm builds the display and asks the follow-up
ConfirmStart ==
    /\ pc = "got"
    /\ ~IsRetry(value)
    /\ NeedsConfirm(self)
    /\ IF ConfirmRaises(value)
       THEN /\ exc' = "TypeError"
            /\ via' = "raised"
            /\ pc' = "raised"
       ELSE /\ pc' = "confirm"
            /\ UNCHANGED <<exc, via>>
    /\ UNCHANGED <<seen, call, resp, self, attempts, raw, value, values, result, out,
                   asks, start, tried, reads, errors, allBad>>

\* the answer to the follow-up arrives: return value, or count and loop
ConfirmAnswer(answer) ==
    /\ pc = "confirm"
    /\ resp' = answer
    /\ reads' = reads + 1
    /\ IF Accepted(answer)
       THEN /\ result' = value
            /\ via' = "confirmed"
            /\ allBad' = FALSE
            /\ pc' = "returned"
            /\ UNCHANGED attempts
       ELSE /\ attempts' = Increment(attempts)
            /\ pc' = "loop"
            /\ UNCHANGED <<result, via, allBad>>
    /\ UNCHANGED <<seen, call, self, raw, value, values, exc, out, asks, start, tried, errors>>

\* no confirmation asked for: return value
ReturnValue ==
    /\ pc = "got"
    /\ ~IsRetry(value)
    /\ ~NeedsConfirm(self)
    /\ result' = value
    /\ via' = "direct"
    /\ allBad' = FALSE
    /\ pc' = "returned"
    /\ UNCHANGED <<seen, call, resp, self, attempts, raw, value, values, exc, out,
                   asks, start, tried, reads, errors>>

Next ==
    \/ Ask
    \/ LoopEnter
    \/ LoopExhaust
    \/ \E line \in Lines : OptionRead(line)
    \/ \E line \in FreeLines : FreeformRead(line)
    \/ \E line \in FreeLines : FreeformEntry(line)
    \/ \E line \in FreeLines : FreeformEnd(line)
    \/ RetryAttempt
    \/ ConfirmStart
    \/ \E answer \in Responses : ConfirmAnswer(answer)
    \/ ReturnValue

Spec == Init /\ [][Next]_vars

\* One validation of one line, for every configuration of the validators.
NextParse ==
    \/ Ask
    \/ LoopEnter
    \/ \E line \in ParseLines : OptionRead(line)
    \/ \E line \in FreeLines : FreeformRead(line)
    \/ \E line \in FreeLines : FreeformEntry(line)
    \/ \E line \in FreeLines : FreeformEnd(line)

SpecParse == InitParse /\ [][NextParse]_vars

\* ---------------------------------------------------------------- router
\* the arguments of one call of interactive_prompt
RouterOptions ==
    {OptNone, CatNumbers, CatWords, OptTuple(<<K_Ab, K_cd>>), OptScalar}

RouterCalls ==
    [freeform : {"none", "single", "multi"}, options : RouterOptions,
     default : {DefNone}, multi : BOOLEAN,
     allow_custom : {FALSE}, retries : 1..MaxRetries, confirm : BOOLEAN,
     case_sensitive : {FALSE}]

InitRouter ==
    /\ call \in RouterCalls
    /\ self = NoPrompt
    /\ attempts = 0
    /\ pc = "call"
    /\ raw = <<>>
    /\ value = NoneR
    /\ values = <<>>
    /\ result = NoneR
    /\ exc = "none"
    /\ out = <<>>
    /\ resp = <<>>
    /\ seen = <<>>
    /\ asks = 0
    /\ start = 0
    /\ tried = 0
    /\ reads = 0
    /\ errors = 0
    /\ allBad = TRUE
    /\ via = "none"

\* the prompt interactive_prompt constructs and asks
Construct(p) ==
    /\ self' = p
    /\ AskFrame
    /\ UNCHANGED <<call, attempts, exc>>

\* interactive_prompt: the free-form modes first, then options None, then
\* a list or a dict, and the TypeError for anything else
Route ==
    /\ pc = "call"
    /\ IF call.freeform \in {"single", "multi"}
         THEN Construct(FreeformPrompt(call.retries, call.confirm,
                                       call.freeform = "multi"))
       ELSE IF call.options.shape = "none"
         THEN Construct(FreeformPrompt(call.retries, call.confirm, FALSE))
       ELSE IF call.options.shape \in {"list", "dict"}
         THEN Construct(OptionPrompt("OptionPrompt", call.retries, call.confirm,
                                     call.options, call.default,
                                     call.case_sensitive, call.multi,
                                     call.allow_custom))
       ELSE /\ pc' = "raised"
            /\ exc' = "TypeError"
            /\ UNCHANGED <<self, attempts, raw, value, values, result, out,
                           resp, call, seen, asks, start, tried, reads,
                           errors, allBad, via>>

NextRouter ==
    \/ Route
    \/ LoopEnter
    \/ LoopExhaust
    \/ \E line \in Lines : OptionRead(line)
    \/ \E line \in FreeLines : FreeformRead(line)
    \/ \E line \in FreeLines : FreeformEntry(line)
    \/ \E line \in FreeLines : FreeformEnd(line)
    \/ RetryAttempt
    \/ ConfirmStart
    \/ \E answer \in Responses : ConfirmAnswer(answer)
    \/ ReturnValue

SpecRouter == InitRouter /\ [][NextRouter]_vars

\* ================================================================ claims
\* the first ask() call on a fresh instance has returned
FirstAskReturned == pc = "returned" /\ asks = 1

\* C1. Exhaustion: when a prompt with retries = R >= 1 is asked and every
\* attempt is invalid or declined, ask() has run exactly R attempts, emitted
\* the error notice once, returned None, and the attempt counter equals R.
C1_Exhaustion ==
    (FirstAskReturned /\ self.retries >= 1 /\ allBad)
        => /\ tried = self.retries
           /\ errors = 1
           /\ out # <<>> /\ out[Len(out)] = Msg("error", "too_many_attempts", <<>>)
           /\ result = NoneR
           /\ attempts = self.retries

\* C1 witness: two attempts, one invalid and one declined, exhaust a prompt
\* constructed with retries = 2.
C1_Witness ==
    /\ FirstAskReturned /\ allBad
    /\ self.retries = 2 /\ self.confirm
    /\ tried = 2 /\ reads = 3
    /\ result = NoneR

\* C2. With retries = 0 ask() still makes a single attempt: it reads one
\* line and validates it before it returns.
C2_ZeroRetriesSingleAttempt ==
    (FirstAskReturned /\ self.retries = 0) => (reads >= 1 /\ tried = 1)

\* C3. With confirmation required a candidate is returned only by the step
\* that accepts the follow-up asked for that candidate; a declined follow-up
\* drops the candidate, adds exactly one to the attempt counter and goes
\* back to the loop; without confirmation a candidate that is not the Retry
\* Sentinel is returned by the next step, with no further line read.
C3_ConfirmGate ==
    [][/\ (pc' = "returned" /\ pc # "returned" /\ via' # "exhausted" /\ self.confirm)
            => /\ pc = "confirm"
               /\ Lower(Strip(resp')) \notin {S_n, S_no}
               /\ result' = value
               /\ attempts' = attempts
       /\ (pc = "confirm" /\ Lower(Strip(resp')) \in {S_n, S_no})
            => /\ pc' = "loop"
               /\ attempts' = attempts + 1
               /\ result' = result
       /\ (pc = "got" /\ value # Retry /\ ~self.confirm)
            => /\ pc' = "returned"
               /\ result' = value
               /\ reads' = reads
               /\ attempts' = attempts
      ]_vars

\* C3 witness: the first candidate was declined, the second one accepted and
\* returned.
C3_Witness ==
    /\ FirstAskReturned /\ self.confirm
    /\ via = "confirmed"
    /\ tried = 2 /\ reads = 4 /\ attempts = 1
    /\ result = value /\ value # NoneR

\* a single-select option prompt has just handled the line `raw`
SingleHandled == IsOption /\ ~self.multi /\ pc \in {"got", "raised"}

\* a multi-select option prompt has just handled the line `raw`
MultiHandled == IsOption /\ self.multi /\ pc \in {"got", "raised"}

\* C4. Single-select, empty input: the value of the resolved default when
\* there is one, None otherwise; an unmatched default specification behaves
\* as no default and raises nothing.
C4_EmptyInputDefault ==
    (SingleHandled /\ raw = <<>>)
        => /\ exc = "none"
           /\ pc = "got"
           /\ value = IF self.default_keys # <<>>
                      THEN One(DictGet(self.option_dict, self.default_keys[1]))
                      ELSE NoneR

\* the 1-based catalog position a text denotes, 0 when it denotes none
PositionOf(txt) ==
    IF \E i \in 1..Len(self.option_dict) : IntToStr(i) = txt
    THEN CHOOSE i \in 1..Len(self.option_dict) : IntToStr(i) = txt
    ELSE 0

\* C5. Single-select, non-empty input: index map first, then key/value map,
\* then (custom allowed) the raw line verbatim, else a warning listing the
\* display keys and the Retry Sentinel. A line that is both an index and a
\* key resolves to the value at that index.
C5_SingleOrder ==
    (SingleHandled /\ raw # <<>>)
        => LET norm == StrV(IF self.case_sensitive THEN raw ELSE Lower(raw))
           IN  /\ pc = "got"
               /\ IF norm \in DOMAIN self.index_map
                  THEN value = One(self.index_map[norm]) /\ out = <<>>
                  ELSE IF norm \in DOMAIN self.value_map
                  THEN value = One(self.value_map[norm]) /\ out = <<>>
                  ELSE IF self.allow_custom
                  THEN value = One(StrV(raw)) /\ out = <<>>
                  ELSE /\ value = Retry
                       /\ out = <<Msg("warn", "expected_one_of",
                                      JoinComma(DisplayKeys(self.option_dict)))>>
               /\ PositionOf(norm.s) # 0
                    => value = One(self.option_dict[PositionOf(norm.s)].v)

\* C5 witness: the catalog ["2", "1"], the line "1": an index and a key; the
\* value at index 1 is returned.
C5_Witness ==
    /\ SingleHandled /\ pc = "got"
    /\ self.options = CatDigits
    /\ raw = K_1
    /\ value = One(StrV(K_2))

\* the tokens of a line as typed: split on commas, trimmed, empty ones dropped
TypedTokens(line) ==
    LET parts == SplitComma(line)
    IN  SelectSeq([i \in 1..Len(parts) |-> Strip(parts[i])], LAMBDA t : t # <<>>)

HasToken(line, tok) == \E i \in 1..Len(TypedTokens(line)) : TypedTokens(line)[i] = tok

\* C6. Multi-select: a line with the token "all" at any position yields
\* every catalog value, whatever the other tokens; a line with the token
\* "none" yields the empty list.
C6_ShortcutsOverride ==
    (MultiHandled /\ raw # <<>>)
        => /\ (HasToken(raw, S_all) /\ ~HasToken(raw, S_none))
                => pc = "got" /\ value = ListR(DictValues(self.option_dict))
           /\ (HasToken(raw, S_none) /\ ~HasToken(raw, S_all))
                => pc = "got" /\ value = ListR(<<>>)

\* a token the maps resolve
Matches(tok) ==
    StrV(tok) \in (DOMAIN self.index_map) \cup (DOMAIN self.value_map)

\* a token taken as a shortcut: "all" or "none" that the maps do not resolve
IsShortcut(tok) == ~Matches(tok) /\ tok \in {S_all, S_none}

\* the tokens processed: those before the first shortcut
Processed(toks) ==
    IF \E i \in 1..Len(toks) : IsShortcut(toks[i])
    THEN SubSeq(toks, 1, (CHOOSE i \in 1..Len(toks) :
                            IsShortcut(toks[i])
                            /\ \A j \in 1..(i - 1) : ~IsShortcut(toks[j])) - 1)
    ELSE toks

\* C7. Multi-select, custom values not allowed: when a processed token
\* matches neither map nor a shortcut, the whole line yields the Retry
\* Sentinel, never a list, and one warning lists every unmatched token.
C7_NoPartialMatch ==
    (MultiHandled /\ ~self.allow_custom /\ raw # <<>>)
        => LET toks == TypedTokens(IF self.case_sensitive THEN raw ELSE Lower(raw))
               unmatched == SelectSeq(Processed(toks), LAMBDA t : ~Matches(t))
           IN  unmatched # <<>>
                 => /\ pc = "got"
                    /\ value = Retry
                    /\ out = <<Msg("warn", "invalid_input", JoinComma(unmatched))>>

\* C7 witness: "1, Zq" against a catalog that knows "1" but not "Zq" is
\* rejected as a whole.
C7_Witness ==
    /\ MultiHandled /\ ~self.allow_custom
    /\ self.options = CatNumbers
    /\ raw = K_1 \o <<",", " ">> \o K_Zq
    /\ value = Retry

\* C8. Multi-select, custom values allowed: every unmatched token is in the
\* result as typed (trimmed, casing kept), at its position among the tokens,
\* whether or not the prompt is case sensitive.
C8_CustomVerbatim ==
    (MultiHandled /\ self.allow_custom /\ raw # <<>>)
        => LET typed == TypedTokens(raw)
               norm  == TypedTokens(IF self.case_sensitive THEN raw ELSE Lower(raw))
           IN  (\A i \in 1..Len(norm) : ~IsShortcut(norm[i]))
                 => /\ pc = "got"
                    /\ value.tag = "list"
                    /\ Len(value.items) = Len(typed)
                    /\ \A i \in 1..Len(typed) :
                         ~Matches(norm[i]) => value.items[i] = StrV(typed[i])

\* C9. Boolean prompt: "N" resolves to False; "maybe" yields the Retry
\* Sentinel with a warning listing "yes, no".
C9_BooleanAnswers ==
    (self.cls = "YesNoPrompt" /\ pc \in {"got", "raised"})
        => /\ raw = S_N => (pc = "got" /\ value = One(FalseV))
           /\ raw = S_maybe
                => /\ pc = "got"
                   /\ value = Retry
                   /\ out = <<Msg("warn", "expected_one_of",
                                  S_yes \o <<",", " ">> \o S_no)>>

\* C10. Free-form single mode: a line that is empty after trimming yields
\* the Retry Sentinel; any other line is returned verbatim.
C10_FreeformBlank ==
    (self.cls = "FreeformPrompt" /\ ~self.multi /\ pc = "got")
        => value = IF Strip(raw) = <<>> THEN Retry ELSE One(StrV(raw))

\* the repeated free-form mode is collecting
Collecting == self.cls = "FreeformPrompt" /\ self.multi

\* a line that ends the collection: the blank line, or "done" in any casing
IsTerminator(line) == line = <<>> \/ Lower(line) = S_done

\* C11. Free-form repeated mode: collection goes on exactly until the first
\* blank line or the first "done" in any casing; the result is the lines read
\* before it, in order, duplicates kept; when the terminator is the first
\* line the outcome is the Retry Sentinel, which costs one attempt.
C11_RepeatedCollection ==
    [][Collecting =>
         /\ pc' = "read" => \A i \in 1..Len(seen') : ~IsTerminator(seen'[i])
         /\ pc' = "got" =>
              LET n == Len(seen')
              IN  /\ n >= 1
                  /\ IsTerminator(seen'[n])
                  /\ \A i \in 1..(n - 1) : ~IsTerminator(seen'[i])
                  /\ value' = IF n = 1 THEN Retry
                              ELSE ListR([i \in 1..(n - 1) |-> StrV(seen'[i])])
         /\ (pc = "got" /\ Len(seen) = 1)
              => /\ value = Retry
                 /\ pc' = "loop"
                 /\ attempts' = attempts + 1
      ]_vars

\* C11 witness: "a", "a", "Done" has been read and the list ["a", "a"] is the
\* candidate.
C11_Witness ==
    /\ Collecting /\ pc = "got"
    /\ seen = <<K_a, K_a, <<"D","o","n","e">>>>
    /\ value = ListR(<<StrV(K_a), StrV(K_a)>>)

\* C12. No attempt is consumed silently: when a validation step of any
\* variant has yielded the Retry Sentinel, a message of the warn or error
\* channel was emitted in that attempt, before the counter is incremented.
C12_InvalidAnnounced ==
    (pc = "got" /\ value = Retry)
        => \E i \in 1..Len(out) : out[i].ch \in {"warn", "error"}

\* the canonical texts of the catalog: its keys and the texts of its values
CanonTexts ==
    {self.option_dict[i].k : i \in 1..Len(self.option_dict)}
    \cup {PyStr(self.option_dict[i].v) : i \in 1..Len(self.option_dict)}

\* t is c in some casing
IsCasingOf(t, c) == Lower(t) = Lower(c)

\* t is a key or a value text in some casing
KnownText(t) == \E c \in CanonTexts : IsCasingOf(t, c)

\* the canonical spellings of a list of tokens
CanonLists(toks) ==
    {cl \in [1..Len(toks) -> CanonTexts] :
        \A i \in 1..Len(toks) : IsCasingOf(toks[i], cl[i])}

\* C13. Case-insensitive mode: a key, a value text or a string default given
\* in any casing resolves to what its canonical casing resolves to, in
\* single-select and in multi-select.
C13_CasingIrrelevant ==
    (IsOption /\ ~self.case_sensitive)
        => /\ (SingleHandled /\ raw # <<>> /\ KnownText(raw))
                => /\ pc = "got"
                   /\ \A c \in CanonTexts :
                        IsCasingOf(raw, c) => value = ParseInput(c, self).value
           /\ (MultiHandled /\ TypedTokens(raw) # <<>>
                 /\ \A i \in 1..Len(TypedTokens(raw)) : KnownText(TypedTokens(raw)[i]))
                => /\ pc = "got"
                   /\ \A cl \in CanonLists(TypedTokens(raw)) :
                        value = ParseInput(JoinComma(cl), self).value
           /\ (self.default.t = "str" /\ KnownText(self.default.s))
                => \A c \in CanonTexts :
                     IsCasingOf(self.default.s, c)
                       => self.default_keys
                            = ResolveDefaultKeys(DefStr(c), self.option_dict, FALSE)

\* C13 witness: "AB, CD" typed at the case-insensitive multi-select over
\* {"Ab": 1, "cd": 2} with the default "CD" gives [1, 2]; the default key
\* is "cd".
C13_Witness ==
    /\ MultiHandled /\ ~self.case_sensitive
    /\ self.options = CatNumbers
    /\ self.default = DefStr(K_CD) /\ self.default_keys = <<K_cd>>
    /\ raw = K_AB \o <<",", " ">> \o K_CD
    /\ value = ListR(<<IntV(1), IntV(2)>>)


\* the index strings "1" .. str(n)
IndexStrings(n) == {StrV(IntToStr(i)) : i \in 1..n}

\* C14. After construction over a non-empty collection the index map has as
\* many entries as the catalog has keys, its keys are exactly "1" .. str(N),
\* and entry i is the underlying value of the i-th key in construction order.
C14_IndexMapShape ==
    (IsOption /\ Len(self.option_dict) >= 1)
        => LET n == Len(self.display_keys) IN
           /\ n = Len(self.option_dict)
           /\ \A i \in 1..n : self.display_keys[i] = self.option_dict[i].k
           /\ \A i, j \in 1..n : i # j => self.display_keys[i] # self.display_keys[j]
           /\ DOMAIN self.index_map = IndexStrings(n)
           /\ Cardinality(DOMAIN self.index_map) = n
           /\ \A i \in 1..n :
                self.index_map[StrV(IntToStr(i))]
                    = DictGet(self.option_dict, self.display_keys[i])

\* C14 witness: the sequence a, b, a, c has three keys and the index map
\* "1" -> "a", "2" -> "b", "3" -> "c"; typing "3" selects "c".
C14_Witness ==
    /\ IsOption /\ self.options = CatRepeat
    /\ Len(self.display_keys) = 3
    /\ DOMAIN self.index_map = {StrV(K_1), StrV(K_2), StrV(K_3)}
    /\ self.index_map[StrV(K_3)] = StrV(K_c)
    /\ SingleHandled /\ raw = K_3 /\ value = One(StrV(K_c))


\* interactive_prompt has been called and has dispatched or failed
Routed == call.freeform # "direct" /\ pc # "call"

\* C15. A call of interactive_prompt whose options are supplied but are
\* neither an ordered sequence nor a mapping fails at once with the TypeError,
\* whatever the other arguments (every freeform mode included), with no prompt
\* constructed and nothing read; an ordered sequence or a mapping is accepted
\* and goes to an OptionPrompt.
C15_RouterContract ==
    Routed
        => /\ call.options.shape \notin {"none", "list", "tuple", "dict"}
                => /\ pc = "raised" /\ exc = "TypeError"
                   /\ self = NoPrompt
                   /\ reads = 0
           /\ (call.options.shape \in {"list", "tuple", "dict"}
                 /\ call.freeform = "none")
                => /\ self.cls = "OptionPrompt"
                   /\ ~(pc = "raised" /\ exc = "TypeError" /\ reads = 0)


\* C16. The attempt counter of an instance starts at 0, never decreases and
\* is never reset; it changes only by +1, on an invalid or a declined attempt;
\* an accepted answer leaves it unchanged; 0 <= attempts <= retries always,
\* across ask() calls; and an ask() entered with attempts = retries returns
\* None without reading.
C16_AttemptCounter ==
    /\ attempts = 0
    /\ [][/\ attempts' \in {attempts, attempts + 1}
          /\ attempts' = attempts + 1
                => \/ pc = "got" /\ value = Retry
                   \/ pc = "confirm" /\ ~Accepted(resp')
          /\ (pc' = "returned" /\ via' \in {"direct", "confirmed"})
                => attempts' = attempts
          /\ 0 <= attempts' /\ attempts' <= self.retries
          /\ (pc = "loop" /\ attempts = self.retries)
                => /\ pc' = "returned" /\ result' = NoneR
                   /\ reads' = reads /\ attempts' = attempts
          /\ (pc' = "returned" /\ start' = self.retries)
                => /\ result' = NoneR /\ reads' = 0
         ]_vars

\* C16 witness: a second ask() on an instance whose counter had reached
\* retries >= 1 returned None and read nothing.
C16_Witness ==
    /\ asks = 2 /\ pc = "returned"
    /\ self.retries = MaxRetries
    /\ start = self.retries /\ attempts = self.retries
    /\ reads = 0 /\ result = NoneR /\ via = "exhausted"


\* C17. An integer default is numbered like the index map: for a catalog of
\* N keys, the default i with 1 <= i <= N resolves to the i-th key (the entry
\* typed as str(i)), and an integer outside 1..N resolves to no default.
C17_NumericDefaultOneBased ==
    (IsOption /\ self.default.t = "int")
        => LET n == Len(self.display_keys)
               i == self.default.n
           IN  self.default_keys
                 = IF 1 <= i /\ i <= n THEN <<self.display_keys[i]>> ELSE <<>>


\* C18. For every key k of the catalog whose normalised text is not an index
\* string, the value map sends the normalised text of k to catalog[k]: typing
\* a display key resolves to that key's own value, also when the value text
\* of another option equals k.
C18_KeyNotShadowed ==
    IsOption
        => \A i \in 1..Len(self.option_dict) :
             LET k  == self.option_dict[i].k
                 kn == KNorm(k, self.case_sensitive)
             IN  kn \notin DOMAIN self.index_map
                   => /\ kn \in DOMAIN self.value_map
                      /\ self.value_map[kn] = self.option_dict[i].v
                      /\ (SingleHandled /\ raw = k)
                            => value = One(self.option_dict[i].v)


\* C19. With confirmation required, every candidate the validators produce
\* (a list of values that are not strings included) reaches the yes/no
\* follow-up, and is returned when accepted; showing the candidate never
\* raises out of ask().
C19_ConfirmAnyCandidate ==
    [][(self.confirm /\ pc = "got" /\ value # Retry)
          => /\ pc' = "confirm"
             /\ exc' = "none"
       ]_vars


\* C20. The retry sentinel never leaves the loop: what ask() returns is a
\* resolved value, a list of values or None, never _Retry, for every prompt,
\* configuration and sequence of lines and answers; and one ask() call runs
\* the validation step at most `retries` times.
C20_SentinelContained ==
    /\ result # Retry
    /\ result.tag \in {"none", "one", "list"}
    /\ tried <= self.retries
    /\ pc = "returned" => via \in {"direct", "confirmed", "exhausted"}
    /\ (pc = "returned" /\ via = "exhausted") => result = NoneR

\* C20 witness: the first attempts yielded the sentinel, the last one allowed
\* yielded a value, and ask() returned that value.
C20_Witness ==
    /\ pc = "returned" /\ via = "direct"
    /\ self.retries = MaxRetries /\ tried = self.retries
    /\ attempts = self.retries - 1
    /\ result = One(IntV(1))

====
